---- MODULE Spec2Model ----
(***************************************************************************)
(* Model of toolchain/disassemble_hexdump.py: a module-level script that   *)
(* packs a literal list of byte values, writes it to a named temporary     *)
(* file, flushes, runs objdump on the file through os.system and closes    *)
(* the file.                                                               *)
(*                                                                         *)
(* The script has no branches, so the program counter pc walks the         *)
(* statements in source order.  Every statement that can raise has a       *)
(* failing twin action; an unhandled exception ends the script with        *)
(* Python's exit status 1.                                                 *)
(***************************************************************************)
EXTENDS Integers, Sequences, FiniteSets

\* Longest byte list explored.
MaxLen == 3

\* Representative values of the unsigned char range (lowest, 0x55, highest).
ByteVals == {0, 85, 255}

\* Values just outside the unsigned char range, for the struct.error case.
BadVals == {-1, 256}

\* Exit statuses the shell command run by os.system can end with:
\* 0 (objdump succeeded), 1 (objdump failed), 127 (objdump not found).
Statuses == {0, 1, 127}

SeqsUpTo(S, n) == UNION {[1..k -> S] : k \in 0..n}

VARIABLES
    list,         \* the module-level name `list` (line 7)
    pc,           \* statement about to be executed
    exists,       \* the temporary file is present in the file system
    buffer,       \* bytes held in the writer's user-space buffer
    disk,         \* bytes of the file visible to other processes
    child,        \* "none" | "running" | "exited": the os.system command
    seen,         \* file content visible when the command was started
    status,       \* exit status of the command, -1 before it has ended
    exitCode,     \* exit status of the script, -1 while it is running
    err,          \* statement whose exception ended the script, or "none"
    writes,       \* number of out.write calls made
    invocations,  \* number of os.system calls made
    closes        \* number of out.close calls made

vars == <<list, pc, exists, buffer, disk, child, seen, status, exitCode, err,
          writes, invocations, closes>>

----------------------------------------------------------------------------
\* struct.pack(f'{len(list)}B', *list)

\* One 'B' item: an unsigned char, struct.error outside 0..255.
InRangeB(v) == v \in 0..255

\* Variant: the packed bytes come out in reverse order.
StructPackReversed(l) ==
    IF \A i \in 1..Len(l) : InRangeB(l[i])
    THEN [ok |-> TRUE, bytes |-> [i \in 1..Len(l) |-> l[Len(l) + 1 - i] % 256]]
    ELSE [ok |-> FALSE, bytes |-> <<>>]

\* Variant: a zero repeat count is rejected.
StructPackNoEmpty(l) ==
    IF Len(l) > 0 /\ \A i \in 1..Len(l) : InRangeB(l[i])
    THEN [ok |-> TRUE, bytes |-> [i \in 1..Len(l) |-> l[i] % 256]]
    ELSE [ok |-> FALSE, bytes |-> <<>>]

\* The format has exactly len(list) 'B' items and receives len(list)
\* arguments, so the count always matches; each item is range-checked and
\* stored as one byte, in argument order.
StructPack(l) ==
    IF \A i \in 1..Len(l) : InRangeB(l[i])
    THEN [ok |-> TRUE, bytes |-> [i \in 1..Len(l) |-> l[i] % 256]]
    ELSE [ok |-> FALSE, bytes |-> <<>>]

----------------------------------------------------------------------------
TypeOK ==
    /\ pc \in {"create", "write", "flush", "system", "wait", "close", "done",
               "raised", "exited"}
    /\ exists \in BOOLEAN
    /\ child \in {"none", "running", "exited"}
    /\ status \in Statuses \cup {-1}
    /\ exitCode \in {-1, 0, 1}
    /\ writes \in 0..1
    /\ invocations \in 0..1
    /\ closes \in 0..1
    /\ err \in {"none", "create", "pack", "write", "flush"}

InitWith(l) ==
    /\ list = l
    /\ pc = "create"
    /\ exists = FALSE
    /\ buffer = <<>>
    /\ disk = <<>>
    /\ child = "none"
    /\ seen = <<>>
    /\ status = -1
    /\ exitCode = -1
    /\ err = "none"
    /\ writes = 0
    /\ invocations = 0
    /\ closes = 0

\* line 7: the list is a literal of values in 0..255.
Init == \E l \in SeqsUpTo(ByteVals, MaxLen) : InitWith(l)

\* The same script over a list that may hold values outside 0..255.
InitAny == \E l \in SeqsUpTo(ByteVals \cup BadVals, MaxLen) : InitWith(l)

----------------------------------------------------------------------------
\* line 9: out = tempfile.NamedTemporaryFile(mode = 'wb')
CreateOk ==
    /\ pc = "create"
    /\ exists' = TRUE
    /\ disk' = <<>>
    /\ buffer' = <<>>
    /\ pc' = "write"
    /\ UNCHANGED <<list, child, seen, status, exitCode, err, writes,
                   invocations, closes>>

\* line 9 raising OSError: no file is created.
CreateFail ==
    /\ pc = "create"
    /\ err' = "create"
    /\ pc' = "raised"
    /\ UNCHANGED <<list, exists, buffer, disk, child, seen, status, exitCode,
                   writes, invocations, closes>>

\* Variant: a struct.error is recorded but execution continues.
WriteSwallow ==
    /\ pc = "write"
    /\ LET p == StructPack(list) IN
         IF p.ok
         THEN /\ \E k \in 0..Len(p.bytes) :
                   /\ disk' = SubSeq(p.bytes, 1, k)
                   /\ buffer' = SubSeq(p.bytes, k + 1, Len(p.bytes))
              /\ writes' = writes + 1
              /\ pc' = "flush"
              /\ UNCHANGED err
         ELSE /\ err' = "pack"
              /\ pc' = "flush"
              /\ UNCHANGED <<disk, buffer, writes>>
    /\ UNCHANGED <<list, exists, child, seen, status, exitCode, invocations,
                   closes>>

\* Variant: the list is drained while it is written.
WriteConsume ==
    /\ pc = "write"
    /\ LET p == StructPack(list) IN
         IF p.ok
         THEN /\ \E k \in 0..Len(p.bytes) :
                   /\ disk' = SubSeq(p.bytes, 1, k)
                   /\ buffer' = SubSeq(p.bytes, k + 1, Len(p.bytes))
              /\ writes' = writes + 1
              /\ pc' = "flush"
              /\ UNCHANGED err
         ELSE /\ err' = "pack"
              /\ pc' = "raised"
              /\ UNCHANGED <<disk, buffer, writes>>
    /\ list' = <<>>
    /\ UNCHANGED <<exists, child, seen, status, exitCode, invocations, closes>>

\* line 10: out.write(struct.pack(f'{len(list)}B', *list))
\* The argument is evaluated first: struct.error leaves before out.write is
\* called.  The buffered writer keeps the bytes in its buffer and may hand a
\* leading part of them to the file already.
Write ==
    /\ pc = "write"
    /\ LET p == StructPack(list) IN
         IF p.ok
         THEN /\ \E k \in 0..Len(p.bytes) :
                   /\ disk' = SubSeq(p.bytes, 1, k)
                   /\ buffer' = SubSeq(p.bytes, k + 1, Len(p.bytes))
              /\ writes' = writes + 1
              /\ pc' = "flush"
              /\ UNCHANGED err
         ELSE /\ err' = "pack"
              /\ pc' = "raised"
              /\ UNCHANGED <<disk, buffer, writes>>
    /\ UNCHANGED <<list, exists, child, seen, status, exitCode, invocations,
                   closes>>

\* line 10 raising OSError from the file system; writing no bytes makes no
\* system call and cannot fail this way.
WriteFail ==
    /\ pc = "write"
    /\ StructPack(list).ok
    /\ Len(StructPack(list).bytes) > 0
    /\ writes' = writes + 1
    /\ err' = "write"
    /\ pc' = "raised"
    /\ UNCHANGED <<list, exists, buffer, disk, child, seen, status, exitCode,
                   invocations, closes>>

\* Variant: flush returns without handing the buffer to the file.
FlushNothing ==
    /\ pc = "flush"
    /\ pc' = "system"
    /\ UNCHANGED <<list, exists, buffer, disk, child, seen, status, exitCode,
                   err, writes, invocations, closes>>

\* line 11: out.flush()
Flush ==
    /\ pc = "flush"
    /\ disk' = disk \o buffer
    /\ buffer' = <<>>
    /\ pc' = "system"
    /\ UNCHANGED <<list, exists, child, seen, status, exitCode, err, writes,
                   invocations, closes>>

\* line 11 raising OSError; an empty buffer makes no system call.
FlushFail ==
    /\ pc = "flush"
    /\ Len(buffer) > 0
    /\ err' = "flush"
    /\ pc' = "raised"
    /\ UNCHANGED <<list, exists, buffer, disk, child, seen, status, exitCode,
                   writes, invocations, closes>>

\* Variant: the command is started without waiting for it.
SystemStartNoWait ==
    /\ pc = "system"
    /\ child' = "running"
    /\ seen' = disk
    /\ invocations' = invocations + 1
    /\ pc' = "close"
    /\ UNCHANGED <<list, exists, buffer, disk, status, exitCode, err, writes,
                   closes>>

\* line 12: os.system(f'objdump ... {out.name}') starts the command and
\* blocks the script.
SystemStart ==
    /\ pc = "system"
    /\ child' = "running"
    /\ seen' = disk
    /\ invocations' = invocations + 1
    /\ pc' = "wait"
    /\ UNCHANGED <<list, exists, buffer, disk, status, exitCode, err, writes,
                   closes>>

\* Variant: a failed command is run again (at most once more).
SystemReturnRetry ==
    /\ pc = "wait"
    /\ \E st \in Statuses :
         /\ status' = st
         /\ pc' = IF st # 0 /\ invocations < 2 THEN "system" ELSE "close"
    /\ child' = "exited"
    /\ UNCHANGED <<list, exists, buffer, disk, seen, exitCode, err, writes,
                   invocations, closes>>

\* line 12: os.system returns when the command has ended; the returned
\* status is an expression statement's value and is discarded.
SystemReturn ==
    /\ pc = "wait"
    /\ \E st \in Statuses : status' = st
    /\ child' = "exited"
    /\ pc' = "close"
    /\ UNCHANGED <<list, exists, buffer, disk, seen, exitCode, err, writes,
                   invocations, closes>>

\* Variant: the script starts over once after closing the file.
CloseAndRepeat ==
    /\ pc = "close"
    /\ disk' = disk \o buffer
    /\ buffer' = <<>>
    /\ exists' = FALSE
    /\ closes' = closes + 1
    /\ pc' = IF closes = 0 THEN "create" ELSE "done"
    /\ UNCHANGED <<list, child, seen, status, exitCode, err, writes,
                   invocations>>

\* line 13: out.close() flushes what is left and deletes the file.
Close ==
    /\ pc = "close"
    /\ disk' = disk \o buffer
    /\ buffer' = <<>>
    /\ exists' = FALSE
    /\ closes' = closes + 1
    /\ pc' = "done"
    /\ UNCHANGED <<list, child, seen, status, exitCode, err, writes,
                   invocations>>

\* Variant: the script ends with the status of the command.
ExitWithStatus ==
    /\ pc = "done"
    /\ exitCode' = status
    /\ pc' = "exited"
    /\ UNCHANGED <<list, exists, buffer, disk, child, seen, status, err,
                   writes, invocations, closes>>

\* End of file reached: the interpreter exits with status 0.
Exit ==
    /\ pc = "done"
    /\ exitCode' = 0
    /\ pc' = "exited"
    /\ UNCHANGED <<list, exists, buffer, disk, child, seen, status, err,
                   writes, invocations, closes>>

\* Unhandled exception: traceback, exit status 1.  Line 13 is not reached;
\* the file goes away only if the interpreter finalizes `out` on its way
\* out, which the language does not promise.
ExitRaised ==
    /\ pc = "raised"
    /\ exitCode' = 1
    /\ \E finalized \in BOOLEAN : exists' = (exists /\ ~finalized)
    /\ pc' = "exited"
    /\ UNCHANGED <<list, buffer, disk, child, seen, status, err, writes,
                   invocations, closes>>

Next ==
    \/ CreateOk
    \/ CreateFail
    \/ Write
    \/ WriteFail
    \/ Flush
    \/ FlushFail
    \/ SystemStart
    \/ SystemReturn
    \/ Close
    \/ Exit
    \/ ExitRaised

Spec == Init /\ [][Next]_vars

SpecAny == InitAny /\ [][Next]_vars

----------------------------------------------------------------------------
\* The i-th byte of a file content equals the i-th element of the list.
SameBytes(content, l) ==
    /\ Len(content) = Len(l)
    /\ \A i \in 1..Len(l) : content[i] = l[i]

C2_FlushedBeforeObjdump ==
    child # "none" => (SameBytes(seen, list) /\ Len(buffer) = 0)

C2_Witness == child = "running" /\ Len(list) >= 2 /\ SameBytes(seen, list)

\* C3: for a list of values in 0..255 the write step stores the list
\* verbatim: once written and flushed, the file holds as many bytes as the
\* list has elements, the i-th byte equal to the i-th element.
C3_RoundTrip ==
    (pc \in {"system", "wait", "close"} /\ exists) => SameBytes(disk, list)

C3_Witness ==
    /\ pc = "system"
    /\ exists
    /\ Len(list) >= 2
    /\ list[1] # list[2]
    /\ SameBytes(disk, list)

\* C4 as stated: the script ends with the status the objdump invocation
\* ended with.
C4_ExitCodeIsToolStatus ==
    (pc = "exited" /\ invocations >= 1) => exitCode = status

\* C4 as amended: the status of the objdump invocation is discarded; the
\* script ends with 0 when no statement raised, whatever objdump returned,
\* and with 1 when a statement raised.
C4_ExitCodeIgnoresToolStatus ==
    pc = "exited" => exitCode = (IF err = "none" THEN 0 ELSE 1)

C4_Witness == pc = "exited" /\ status = 127 /\ exitCode = 0

\* C5 as stated: one run performs write, invoke, release twice.
C5_SequenceRunsTwice ==
    (pc = "exited" /\ err = "none")
        => (writes = 2 /\ invocations = 2 /\ closes = 2)

\* C5 as amended: one run performs write, invoke, release exactly once, on
\* one byte sequence, and never starts a second pass.
C5_SequenceRunsOnce ==
    /\ writes <= 1 /\ invocations <= 1 /\ closes <= 1
    /\ (pc = "exited" /\ err = "none")
           => (writes = 1 /\ invocations = 1 /\ closes = 1)

C5_Witness == pc = "exited" /\ err = "none" /\ closes = 1 /\ Len(list) > 0

\* C6: with an empty list the write step raises nothing, the file exists
\* with length zero, and the script goes on to invoke objdump and to
\* release the file.
C6_EmptyListWritesEmptyFile ==
    Len(list) = 0 =>
        /\ err \notin {"pack", "write", "flush"}
        /\ pc \in {"flush", "system", "wait", "close"}
               => (exists /\ Len(disk) = 0 /\ Len(buffer) = 0)
        /\ pc \in {"close", "done"} => invocations = 1
        /\ pc = "done" => (closes = 1 /\ ~exists)

C6_Witness ==
    Len(list) = 0 /\ pc = "done" /\ invocations = 1 /\ closes = 1 /\ ~exists

\* C7: the file is released only after objdump has exited: while the
\* command runs the script is blocked and the file exists, close is never
\* called before the command has ended, and the step that follows the
\* return of the invocation deletes the file.
C7_ReleaseAfterObjdumpExit ==
    /\ [](child = "running" => (exists /\ pc = "wait"))
    /\ [](closes > 0 => child = "exited")
    /\ [][(child = "running" /\ child' = "exited") => pc' = "close"]_vars
    /\ [][pc = "close" => (~exists' /\ pc' = "done")]_vars

C7_Witness == pc = "done" /\ child = "exited" /\ ~exists /\ closes = 1

\* C8: every element of the list lies in 0..255 and the list is never
\* mutated: it is serialized exactly once and has the same value before and
\* after the write, the invocation and the release.
C8_ListInRangeAndImmutable ==
    /\ [](\A i \in 1..Len(list) : list[i] \in 0..255)
    /\ [](writes <= 1)
    /\ [](pc \in {"flush", "system", "wait", "close", "done"} => writes = 1)
    /\ [][list' = list]_vars

C8_Witness == pc = "done" /\ writes = 1 /\ Len(list) >= 1

\* C9: objdump is started exactly once and never retried: whatever status
\* the invocation ends with, the next statement is the release of the file.
C9_NoRetry ==
    /\ [](invocations <= 1)
    /\ [](pc \in {"close", "done"} => invocations = 1)
    /\ [][pc = "wait" => pc' = "close"]_vars

C9_Witness == pc = "close" /\ status = 127 /\ invocations = 1

\* C10: when creating the file fails or the write step raises (a value
\* outside 0..255, a file-system error), the script stops there and objdump
\* is never invoked.
C10_RaiseStopsBeforeObjdump ==
    err # "none" =>
        /\ pc \in {"raised", "exited"}
        /\ invocations = 0
        /\ child = "none"

C10_Witness == err = "pack" /\ pc = "exited" /\ invocations = 0

====
